---- MODULE Spec2Model ----
(***************************************************************************)
(* A model of the typed_index crate: the typed index value                 *)
(* IndexTo<Data, In, Idx = usize>, the capabilities that mint it and       *)
(* consume it (HaveTypedIndex, TypedIndex, TypedIndexMut, IndexLike), the   *)
(* built-in bindings on Vec<T>, [T] and str, its formatting and its serde   *)
(* bridge.                                                                  *)
(*                                                                         *)
(* Spec      : one thread that mints typed indices and uses them to read    *)
(*             and write the containers of tests::test_int_and_bool         *)
(*             (integers : Vec<i32>, booleans : Vec<bool>), the slice       *)
(*             integers.as_mut_slice() : [i32] and a str.                   *)
(* SpecValue : typed index values held in several variables of one type,   *)
(*             created, copied, overwritten, compared, hashed, rendered,    *)
(*             serialized and deserialized.                                 *)
(*                                                                         *)
(* What the compiler decides (which impl applies, which calls type-check)   *)
(* is modelled by the Impl* predicates, which guard the actions: a call     *)
(* that does not compile is a step the program cannot take.                 *)
(***************************************************************************)
EXTENDS Integers, Sequences, FiniteSets, TLC

VARIABLES integers, booleans, text, cur, minted, last, pc,
          markers, vals, written, obs

vars == <<integers, booleans, text, cur, minted, last, pc,
          markers, vals, written, obs>>

storeVars == <<integers, booleans, text>>
accessVars == <<integers, booleans, text, cur, minted, last, pc>>
valueVars == <<markers, vals, written, obs>>

(* Bounds of the model. *)
MaxRaw == 3
MaxSlots == 2
MaxWire == 2

RawVals == 0..MaxRaw
Slots == 1..MaxSlots

(***************************************************************************)
(* Types.  A type is named by the string rustc would print for it.         *)
(***************************************************************************)
DataTypes == {"i32", "bool", "u8"}
OwnerTypes == {"Vec<i32>", "Vec<bool>", "[i32]", "str"}
MarkerPairs == [index_data : DataTypes, index_owner : OwnerTypes]

\* `Data : ?Sized, In : ?Sized`: the owner may be unsized ([T], str).
Sized(t) == t \notin {"[i32]", "str"}

\* The containers of the run and their types.
Containers == {"integers", "booleans", "slice", "text"}

ContainerType(c) ==
    CASE c = "integers" -> "Vec<i32>"
      [] c = "booleans" -> "Vec<bool>"
      [] c = "slice"    -> "[i32]"
      [] c = "text"     -> "str"

\* The test's data, and the bytes of a two-byte str ("hi").
TestIntegers == <<10, 20, 30>>
TestBooleans == <<TRUE, FALSE>>
TestText == <<104, 105>>
IntVals == {10, 20, 30}

Take(s, n) == SubSeq(s, 1, IF n < Len(s) THEN n ELSE Len(s))


(***************************************************************************)
(* The typed index value: struct IndexTo { index, index_data, index_owner } *)
(* The two PhantomData fields are the markers; they exist only in the type. *)
(***************************************************************************)
NoIdx == [index |-> 0, index_data |-> "-", index_owner |-> "-"]

\* Faulty from_index, storing index + 1: C5 tells it from from_index.
IndexTo_from_index_succ(index, data, owner) ==
    [index |-> index + 1, index_data |-> data, index_owner |-> owner]

\* pub const fn from_index(index : Idx) -> Self
IndexTo_from_index(index, data, owner) ==
    [index |-> index, index_data |-> data, index_owner |-> owner]

\* pub const fn index(self) -> Idx
IndexTo_index(self) == self.index

\* Faulty set_index, leaving the value as it was: C10 tells it from set_index.
IndexTo_set_index_noop(self, index) == self

\* pub fn set_index(&mut self, index : Idx) -> &mut Self : the new *self
IndexTo_set_index(self, index) == [self EXCEPT !.index = index]

\* pub fn with_index(mut self, index : Idx) -> Self
IndexTo_with_index(self, index) == IndexTo_set_index(self, index)

\* fn clone(&self) -> Self { Self::from_index(self.index.clone()) }
Clone_clone(self) ==
    IndexTo_from_index(self.index, self.index_data, self.index_owner)

(***************************************************************************)
(* References and native indexing.  A reference into a container is the    *)
(* position it points at; an access that panics yields Panic instead.      *)
(***************************************************************************)
Ref(p) == [kind |-> "ref", pos |-> p]
Panic == [kind |-> "panic", pos |-> 0]
NoOut == [kind |-> "none", pos |-> 0]

Some(r) == [some |-> TRUE, val |-> r]
None == [some |-> FALSE, val |-> NoOut]

\* <Vec<T> as Index<usize>>::index and index_mut: bounds-checked, panics.
Native_index(self, i) == IF i < Len(self) THEN Ref(i) ELSE Panic
Native_index_mut(self, i) == IF i < Len(self) THEN Ref(i) ELSE Panic

\* <[T]>::get and get_mut: bounds-checked, None when out of range.
Slice_get(self, i) == IF i < Len(self) THEN Some(Ref(i)) ELSE None
Slice_get_mut(self, i) == IF i < Len(self) THEN Some(Ref(i)) ELSE None

\* Option::unwrap: panics on None.
Option_unwrap(o) == IF o.some THEN o.val ELSE Panic

\* str::as_bytes: the str is held as its bytes.
Str_as_bytes(self) == self

\* The element a reference points at.
Deref(self, r) == self[r.pos + 1]

(***************************************************************************)
(* The built-in bindings, lib.rs 165-196.                                  *)
(***************************************************************************)
Vec_index(self, index) == Native_index(self, index.index)

\* Faulty Vec binding, off by one: C3 tells it from Vec_index_mut.
Vec_index_mut_succ(self, index) == Native_index_mut(self, index.index + 1)

Vec_index_mut(self, index) == Native_index_mut(self, index.index)

\* Faulty slice binding, wrapping the index into range: C2 tells it from Slice_index.
Slice_index_wrapping(self, index) ==
    IF Len(self) = 0 THEN Panic
    ELSE Option_unwrap(Slice_get(self, index.index % Len(self)))

Slice_index(self, index) == Option_unwrap(Slice_get(self, index.index))

Slice_index_mut(self, index) == Option_unwrap(Slice_get_mut(self, index.index))

Str_index(self, index) == Native_index(Str_as_bytes(self), index.index)

(***************************************************************************)
(* Which impls exist: the compiler's answer to `ct : Index<I>`.            *)
(***************************************************************************)
\* ct : Index<usize> (std): Vec<T> and [T]; str has no such impl.
ImplIndexUsize(ct) == ct \in {"Vec<i32>", "Vec<bool>", "[i32]"}
ImplIndexMutUsize(ct) == ct \in {"Vec<i32>", "Vec<bool>", "[i32]"}

\* <ct as Index<usize>>::Output
Output(ct) ==
    CASE ct = "Vec<i32>"  -> "i32"
      [] ct = "Vec<bool>" -> "bool"
      [] ct = "[i32]"     -> "i32"
      [] OTHER            -> "-"

\* Faulty bindings, generic over the markers: C4 tells them from ImplIndex.
ImplIndex_any_marker(ct, data, owner) == data # "-"

\* ct : Index<IndexTo<data, owner>>
ImplIndex(ct, data, owner) ==
    \/ ct \in {"Vec<i32>", "Vec<bool>"} /\ data = Output(ct) /\ owner = ct
    \/ ct = "[i32]" /\ data = "i32" /\ owner = "[i32]"
    \/ ct = "str" /\ data = "u8" /\ owner = "str"

\* ct : IndexMut<IndexTo<data, owner>>
ImplIndexMut(ct, data, owner) ==
    \/ ct \in {"Vec<i32>", "Vec<bool>"} /\ data = Output(ct) /\ owner = ct
    \/ ct = "[i32]" /\ data = "i32" /\ owner = "[i32]"

\* IndexTo<data, owner> : IndexLike.  The impl's second parameter carries the
\* implicit Sized bound, and Self : Copy holds for Idx = usize.
ImplIndexLike(data, owner) == data # "-" /\ Sized(owner)

\* Index::index and IndexMut::index_mut with a typed index, by container type.
Index_index(ct, self, index) ==
    CASE ct \in {"Vec<i32>", "Vec<bool>"} -> Vec_index(self, index)
      [] ct = "[i32]" -> Slice_index(self, index)
      [] ct = "str" -> Str_index(self, index)

IndexMut_index_mut(ct, self, index) ==
    CASE ct \in {"Vec<i32>", "Vec<bool>"} -> Vec_index_mut(self, index)
      [] ct = "[i32]" -> Slice_index_mut(self, index)

(***************************************************************************)
(* The capabilities, lib.rs 198-240 and index_extension.rs.                *)
(***************************************************************************)
\* Faulty index_to, dropping its argument: C1 tells it from index_to.
HaveTypedIndex_index_to_zero(ct, index) == IndexTo_from_index(0, Output(ct), ct)

\* fn index_to(&self, index : Idx) -> Self::IndexTo
HaveTypedIndex_index_to(ct, index) == IndexTo_from_index(index, Output(ct), ct)

\* fn typed_index(&self, index : Self::IndexTo) -> &Output { self.index(index) }
TypedIndex_typed_index(ct, self, index) == Index_index(ct, self, index)

\* fn typed_index_mut(&mut self, index) -> &mut Output { self.index_mut(index) }
TypedIndexMut_typed_index_mut(ct, self, index) == IndexMut_index_mut(ct, self, index)

\* Faulty get, reading the first element: C7 tells it from IndexLike_get.
IndexLike_get_first(index, ct, inside) ==
    Index_index(ct, inside, [index EXCEPT !.index = 0])

\* fn get<T>(self, inside : &T) -> &T::Output { inside.index(self) }
IndexLike_get(index, ct, inside) == Index_index(ct, inside, index)

\* fn get_mut<T>(self, inside : &mut T) -> &mut T::Output { inside.index_mut(self) }
IndexLike_get_mut(index, ct, inside) == IndexMut_index_mut(ct, inside, index)

\* impl IndexLike for usize: get and get_mut with a bare usize.
Usize_get(i, inside) == Native_index(inside, i)
Usize_get_mut(i, inside) == Native_index_mut(inside, i)

(***************************************************************************)
(* The state of a run.                                                     *)
(*   integers, booleans : the two Vecs; the slice is integers' own storage *)
(*                        borrowed as [i32]; text : the bytes of the str.  *)
(*   cur    : the typed index the thread holds (NoIdx before the first)    *)
(*   minted : how cur was made (operation, container, raw value given)     *)
(*   last   : the last call and what it returned                           *)
(*   pc     : "running", or "panicked" once an access has panicked         *)
(***************************************************************************)
Storage(c) ==
    CASE c \in {"integers", "slice"} -> integers
      [] c = "booleans" -> booleans
      [] c = "text" -> text

ElemVals(c) == IF c = "booleans" THEN BOOLEAN ELSE IntVals

Call(op, c, raw, out, val) ==
    [op |-> op, c |-> c, raw |-> raw, out |-> out, val |-> val]

NoMint == [op |-> "none", c |-> "-", raw |-> 0]
NoObs == [op |-> "init", a |-> 0, b |-> 0, raw |-> 0, arg |-> <<>>, out |-> <<>>]

IdleValues ==
    /\ markers = [index_data |-> "i32", index_owner |-> "Vec<i32>"]
    /\ vals = [s \in Slots |-> NoIdx]
    /\ written = [s \in Slots |-> 0]
    /\ obs = NoObs

\* let mut int_and_bool = IntAndBool { integers : vec![..], booleans : vec![..] }
\* with vectors of every length up to the test's.
Init ==
    /\ \E n \in 0..Len(TestIntegers) :
          /\ integers = Take(TestIntegers, n)
          /\ booleans = Take(TestBooleans, n)
          /\ text = Take(TestText, n)
    /\ cur = NoIdx
    /\ minted = NoMint
    /\ last = Call("init", "-", 0, NoOut, <<>>)
    /\ pc = "running"
    /\ IdleValues

\* let idx = c.index_to(v);
IndexToStep(c, v) ==
    /\ pc = "running"
    /\ ImplIndexUsize(ContainerType(c))
    /\ cur' = HaveTypedIndex_index_to(ContainerType(c), v)
    /\ minted' = [op |-> "index_to", c |-> c, raw |-> v]
    /\ last' = Call("index_to", c, v, NoOut, <<>>)
    /\ UNCHANGED <<storeVars, pc, valueVars>>

\* let idx = IndexTo::<Data, In>::from_index(v);
FromIndexStep(m, v) ==
    /\ pc = "running"
    /\ cur' = IndexTo_from_index(v, m.index_data, m.index_owner)
    /\ minted' = [op |-> "from_index", c |-> "-", raw |-> v]
    /\ last' = Call("from_index", "-", v, NoOut, <<>>)
    /\ UNCHANGED <<storeVars, pc, valueVars>>

\* What a read that returned r leaves behind: the reference and the element
\* read through it, or the panic that ended the thread.
Returned(op, c, i, r) ==
    /\ last' = Call(op, c, i, r,
                    IF r.kind = "ref" THEN <<Deref(Storage(c), r)>> ELSE <<>>)
    /\ pc' = IF r.kind = "panic" THEN "panicked" ELSE pc
    /\ UNCHANGED <<storeVars, cur, minted, valueVars>>

\* let e = c[idx];
IndexStep(c) ==
    /\ pc = "running" /\ cur # NoIdx
    /\ ImplIndex(ContainerType(c), cur.index_data, cur.index_owner)
    /\ Returned("index", c, cur.index,
                Index_index(ContainerType(c), Storage(c), cur))

\* let e = c.typed_index(idx);
TypedIndexStep(c) ==
    /\ pc = "running" /\ cur # NoIdx
    /\ ImplIndex(ContainerType(c), cur.index_data, cur.index_owner)
    /\ Returned("typed_index", c, cur.index,
                TypedIndex_typed_index(ContainerType(c), Storage(c), cur))

\* let e = idx.get(&c);
GetStep(c) ==
    /\ pc = "running" /\ cur # NoIdx
    /\ ImplIndexLike(cur.index_data, cur.index_owner)
    /\ ImplIndex(ContainerType(c), cur.index_data, cur.index_owner)
    /\ Returned("get", c, cur.index,
                IndexLike_get(cur, ContainerType(c), Storage(c)))

\* let e = idx.index().get(&c);   the bare usize as the receiver
UsizeGetStep(c) ==
    /\ pc = "running" /\ cur # NoIdx
    /\ ImplIndexUsize(ContainerType(c))
    /\ Returned("usize_get", c, IndexTo_index(cur),
                Usize_get(IndexTo_index(cur), Storage(c)))

\* What a write of x through the mutable reference r leaves behind.
Assigned(op, c, i, r, x) ==
    /\ last' = Call(op, c, i, r, IF r.kind = "ref" THEN <<x>> ELSE <<>>)
    /\ pc' = IF r.kind = "panic" THEN "panicked" ELSE pc
    /\ IF r.kind = "ref" /\ c \in {"integers", "slice"}
         THEN integers' = [integers EXCEPT ![r.pos + 1] = x]
         ELSE UNCHANGED integers
    /\ IF r.kind = "ref" /\ c = "booleans"
         THEN booleans' = [booleans EXCEPT ![r.pos + 1] = x]
         ELSE UNCHANGED booleans
    /\ UNCHANGED <<text, cur, minted, valueVars>>

\* c[idx] = x;
IndexMutStep(c, x) ==
    /\ pc = "running" /\ cur # NoIdx
    /\ ImplIndexMut(ContainerType(c), cur.index_data, cur.index_owner)
    /\ Assigned("index_mut", c, cur.index,
                IndexMut_index_mut(ContainerType(c), Storage(c), cur), x)

\* *c.typed_index_mut(idx) = x;
TypedIndexMutStep(c, x) ==
    /\ pc = "running" /\ cur # NoIdx
    /\ ImplIndexMut(ContainerType(c), cur.index_data, cur.index_owner)
    /\ Assigned("typed_index_mut", c, cur.index,
                TypedIndexMut_typed_index_mut(ContainerType(c), Storage(c), cur), x)

\* *idx.get_mut(&mut c) = x;
GetMutStep(c, x) ==
    /\ pc = "running" /\ cur # NoIdx
    /\ ImplIndexLike(cur.index_data, cur.index_owner)
    /\ ImplIndexMut(ContainerType(c), cur.index_data, cur.index_owner)
    /\ Assigned("get_mut", c, cur.index,
                IndexLike_get_mut(cur, ContainerType(c), Storage(c)), x)

\* *idx.index().get_mut(&mut c) = x;   the bare usize as the receiver
UsizeGetMutStep(c, x) ==
    /\ pc = "running" /\ cur # NoIdx
    /\ ImplIndexMutUsize(ContainerType(c))
    /\ Assigned("usize_get_mut", c, IndexTo_index(cur),
                Usize_get_mut(IndexTo_index(cur), Storage(c)), x)

Next ==
    \/ \E c \in Containers, v \in RawVals : IndexToStep(c, v)
    \/ \E m \in MarkerPairs, v \in RawVals : FromIndexStep(m, v)
    \/ \E c \in Containers : IndexStep(c)
    \/ \E c \in Containers : TypedIndexStep(c)
    \/ \E c \in Containers : GetStep(c)
    \/ \E c \in Containers : UsizeGetStep(c)
    \/ \E c \in Containers : \E x \in ElemVals(c) : IndexMutStep(c, x)
    \/ \E c \in Containers : \E x \in ElemVals(c) : TypedIndexMutStep(c, x)
    \/ \E c \in Containers : \E x \in ElemVals(c) : GetMutStep(c, x)
    \/ \E c \in Containers : \E x \in ElemVals(c) : UsizeGetMutStep(c, x)

Spec == Init /\ [][Next]_vars

(***************************************************************************)
(* Comparison, hashing, formatting and serde of the typed index value,     *)
(* lib.rs 155-163 and serde_support.rs.  Each forwards to the operation of *)
(* the raw index type, here usize.                                         *)
(***************************************************************************)
\* <usize as Ord>::cmp and <usize as PartialOrd>::partial_cmp (Some(..) as <<..>>)
Usize_cmp(a, b) == IF a < b THEN "Less" ELSE IF a = b THEN "Equal" ELSE "Greater"
Usize_partial_cmp(a, b) == <<Usize_cmp(a, b)>>

\* <usize as Hash>::hash: one write_usize into the hasher; a hasher is the
\* sequence of writes it has been fed.
Usize_hash(i, state) == Append(state, [write |-> "usize", val |-> i])

\* Faulty eq, comparing the (equal) markers only: C6 tells it from PartialEq_eq.
PartialEq_eq_always(self, other) == TRUE

\* fn eq(&self, other : &Self) -> bool { self.index == other.index }
PartialEq_eq(self, other) == self.index = other.index

\* fn cmp(&self, other : &Self) -> Ordering { self.index.cmp(&other.index) }
Ord_cmp(self, other) == Usize_cmp(self.index, other.index)

\* fn partial_cmp(&self, other : &Self) -> Option<Ordering>
PartialOrd_partial_cmp(self, other) == Usize_partial_cmp(self.index, other.index)

\* fn hash<H : Hasher>(&self, state : &mut H) { self.index.hash(state); }
Hash_hash(self, state) == Usize_hash(self.index, state)

\* Text is a sequence of tokens: a type name, a digit or a piece of punctuation.
DigitChars == <<"0", "1", "2", "3", "4", "5", "6", "7", "8", "9">>

RECURSIVE Decimal(_)
Decimal(n) ==
    IF n < 10 THEN <<DigitChars[n + 1]>>
    ELSE Decimal(n \div 10) \o <<DigitChars[(n % 10) + 1]>>

\* <usize as Debug>::fmt and <usize as Display>::fmt: decimal
Usize_fmt(i) == Decimal(i)

\* std::any::type_name::<T>()
TypeName(t) ==
    CASE t = "Vec<i32>"  -> <<"alloc::vec::Vec", "<", "i32", ">">>
      [] t = "Vec<bool>" -> <<"alloc::vec::Vec", "<", "bool", ">">>
      [] t = "[i32]"     -> <<"[", "i32", "]">>
      [] OTHER           -> <<t>>

\* Faulty Debug, naming Data in place of In: C8 tells it from Debug_fmt.
Debug_fmt_data(self) ==
    <<"IndexTo", "<">> \o TypeName(self.index_data) \o <<">", "(">>
        \o Usize_fmt(self.index) \o <<")">>

\* write!(f, "IndexTo<{}>({:?})", std::any::type_name::<In>(), self.index)
Debug_fmt(self) ==
    <<"IndexTo", "<">> \o TypeName(self.index_owner) \o <<">", "(">>
        \o Usize_fmt(self.index) \o <<")">>

\* write!(f, "IndexTo<{}>({})", std::any::type_name::<In>(), self.index)
Display_fmt(self) ==
    <<"IndexTo", "<">> \o TypeName(self.index_owner) \o <<">", "(">>
        \o Usize_fmt(self.index) \o <<")">>

\* The serializer is a text format that writes an unsigned integer in decimal
\* and reads back exactly what it writes (no sign, no leading zero).
WireChars == {"0", "1", "-"}
Wire == UNION {[1..n -> WireChars] : n \in 0..MaxWire}

IsDigit(ch) == \E d \in 1..10 : DigitChars[d] = ch
DigitValue(ch) == (CHOOSE d \in 1..10 : DigitChars[d] = ch) - 1

RECURSIVE DecimalValue(_)
DecimalValue(bytes) ==
    IF Len(bytes) = 0 THEN 0
    ELSE 10 * DecimalValue(SubSeq(bytes, 1, Len(bytes) - 1))
            + DigitValue(bytes[Len(bytes)])

Ok(v) == [ok |-> TRUE, val |-> v]
Err(v) == [ok |-> FALSE, val |-> v]

\* <usize as Serialize>::serialize
Usize_serialize(i) == Decimal(i)

\* <usize as Deserialize>::deserialize
Usize_deserialize(bytes) ==
    IF /\ Len(bytes) > 0
       /\ \A k \in 1..Len(bytes) : IsDigit(bytes[k])
       /\ (Len(bytes) > 1 => bytes[1] # "0")
    THEN Ok(DecimalValue(bytes))
    ELSE Err(0)

\* Faulty serialize, writing the struct with its field name: C9 tells it from serialize.
IndexTo_serialize_struct(self) ==
    <<"{", "index", ":">> \o Usize_serialize(self.index) \o <<"}">>

\* fn serialize(&self, serializer) { self.index.serialize(serializer) }
IndexTo_serialize(self) == Usize_serialize(self.index)

\* fn deserialize(deserializer) -> Result<Self, D::Error>
IndexTo_deserialize(bytes, data, owner) ==
    LET index == Usize_deserialize(bytes) IN
    IF index.ok
    THEN Ok([index |-> index.val, index_data |-> data, index_owner |-> owner])
    ELSE Err(NoIdx)

(***************************************************************************)
(* Typed index values held in variables.                                   *)
(*   markers : the Data and In of the variables' type IndexTo<Data, In>    *)
(*   vals    : the variables (NoIdx while not yet initialised)             *)
(*   written : for each variable, the raw value last written to it         *)
(*   obs     : the last operation, its operands and what it returned       *)
(***************************************************************************)
\* The index types the built-in bindings are written for.
BoundPairs ==
    {m \in MarkerPairs :
        \E ct \in OwnerTypes : ImplIndex(ct, m.index_data, m.index_owner)}

Observed(op, a, b, raw, arg, out) ==
    [op |-> op, a |-> a, b |-> b, raw |-> raw, arg |-> arg, out |-> out]

IdleAccess ==
    /\ integers = TestIntegers
    /\ booleans = TestBooleans
    /\ text = TestText
    /\ cur = NoIdx
    /\ minted = NoMint
    /\ last = Call("init", "-", 0, NoOut, <<>>)
    /\ pc = "running"

InitValue ==
    /\ IdleAccess
    /\ markers \in BoundPairs
    /\ vals = [s \in Slots |-> NoIdx]
    /\ written = [s \in Slots |-> 0]
    /\ obs = Observed("init", 0, 0, 0, <<>>, <<>>)

\* let s = IndexTo::<Data, In>::from_index(v);
VFromIndex(s, v) ==
    /\ vals' = [vals EXCEPT ![s] =
                   IndexTo_from_index(v, markers.index_data, markers.index_owner)]
    /\ written' = [written EXCEPT ![s] = v]
    /\ obs' = Observed("from_index", s, 0, v, <<>>, <<>>)
    /\ UNCHANGED <<markers, accessVars>>

\* let t = s.clone();
VClone(s, t) ==
    /\ s # t /\ vals[s] # NoIdx
    /\ vals' = [vals EXCEPT ![t] = Clone_clone(vals[s])]
    /\ written' = [written EXCEPT ![t] = written[s]]
    /\ obs' = Observed("clone", s, t, 0, <<>>, <<>>)
    /\ UNCHANGED <<markers, accessVars>>

\* let t = s;   (impl Copy: the bits are copied)
VCopy(s, t) ==
    /\ s # t /\ vals[s] # NoIdx
    /\ vals' = [vals EXCEPT ![t] = vals[s]]
    /\ written' = [written EXCEPT ![t] = written[s]]
    /\ obs' = Observed("copy", s, t, 0, <<>>, <<>>)
    /\ UNCHANGED <<markers, accessVars>>

\* s.set_index(v);
VSetIndex(s, v) ==
    /\ vals[s] # NoIdx
    /\ vals' = [vals EXCEPT ![s] = IndexTo_set_index(vals[s], v)]
    /\ written' = [written EXCEPT ![s] = v]
    /\ obs' = Observed("set_index", s, 0, v, <<>>, <<>>)
    /\ UNCHANGED <<markers, accessVars>>

\* let t = s.with_index(v);   (s is copied into the call)
VWithIndex(s, t, v) ==
    /\ vals[s] # NoIdx
    /\ vals' = [vals EXCEPT ![t] = IndexTo_with_index(vals[s], v)]
    /\ written' = [written EXCEPT ![t] = v]
    /\ obs' = Observed("with_index", s, t, v, <<>>, <<>>)
    /\ UNCHANGED <<markers, accessVars>>

\* An operation that only looks at the values.
Looked(op, a, b, arg, out) ==
    /\ obs' = Observed(op, a, b, 0, arg, out)
    /\ UNCHANGED <<markers, vals, written, accessVars>>

\* s.index()
VIndex(s) ==
    /\ vals[s] # NoIdx
    /\ Looked("index", s, 0, <<>>, <<IndexTo_index(vals[s])>>)

\* s == t
VEq(s, t) ==
    /\ vals[s] # NoIdx /\ vals[t] # NoIdx
    /\ Looked("eq", s, t, <<>>, <<PartialEq_eq(vals[s], vals[t])>>)

\* s.cmp(&t)
VCmp(s, t) ==
    /\ vals[s] # NoIdx /\ vals[t] # NoIdx
    /\ Looked("cmp", s, t, <<>>, <<Ord_cmp(vals[s], vals[t])>>)

\* s.partial_cmp(&t)
VPartialCmp(s, t) ==
    /\ vals[s] # NoIdx /\ vals[t] # NoIdx
    /\ Looked("partial_cmp", s, t, <<>>, PartialOrd_partial_cmp(vals[s], vals[t]))

\* s.hash(&mut hasher) into a fresh hasher
VHash(s) ==
    /\ vals[s] # NoIdx
    /\ Looked("hash", s, 0, <<>>, Hash_hash(vals[s], <<>>))

\* format!("{:?}", s)
VDebug(s) ==
    /\ vals[s] # NoIdx
    /\ Looked("debug", s, 0, <<>>, Debug_fmt(vals[s]))

\* format!("{}", s)
VDisplay(s) ==
    /\ vals[s] # NoIdx
    /\ Looked("display", s, 0, <<>>, Display_fmt(vals[s]))

\* s.serialize(serializer)
VSerialize(s) ==
    /\ vals[s] # NoIdx
    /\ Looked("serialize", s, 0, <<>>, IndexTo_serialize(vals[s]))

\* IndexTo::<Data, In>::deserialize(deserializer) on the input bytes
VDeserialize(bytes) ==
    /\ bytes \in Wire
    /\ Looked("deserialize", 0, 0, bytes,
              <<IndexTo_deserialize(bytes, markers.index_data, markers.index_owner)>>)

NextValue ==
    \/ \E s \in Slots, v \in RawVals : VFromIndex(s, v)
    \/ \E s \in Slots, t \in Slots : VClone(s, t)
    \/ \E s \in Slots, t \in Slots : VCopy(s, t)
    \/ \E s \in Slots, v \in RawVals : VSetIndex(s, v)
    \/ \E s \in Slots, t \in Slots, v \in RawVals : VWithIndex(s, t, v)
    \/ \E s \in Slots : VIndex(s)
    \/ \E s \in Slots, t \in Slots : VEq(s, t)
    \/ \E s \in Slots, t \in Slots : VCmp(s, t)
    \/ \E s \in Slots, t \in Slots : VPartialCmp(s, t)
    \/ \E s \in Slots : VHash(s)
    \/ \E s \in Slots : VDebug(s)
    \/ \E s \in Slots : VDisplay(s)
    \/ \E s \in Slots : VSerialize(s)
    \/ \E bytes \in Wire : VDeserialize(bytes)

SpecValue == InitValue /\ [][NextValue]_vars

(***************************************************************************)
(* Properties.                                                             *)
(***************************************************************************)
TypedReadOps == {"index", "typed_index", "get"}
TypedMutOps == {"index_mut", "typed_index_mut", "get_mut"}
TypedAccessOps == TypedReadOps \cup TypedMutOps

\* The element type a container yields: `type Output` of its bindings.
ElemType(ct) == IF ct = "str" THEN "u8" ELSE Output(ct)

\* sub occurs in text as a run of consecutive tokens
Includes(txt, sub) ==
    \E i \in 0..(Len(txt) - Len(sub)) : SubSeq(txt, i + 1, i + Len(sub)) = sub

(* C1: index_to never fails and leaves every container as it was; and a    *)
(* read of container C (C[idx], typed_index, get) with the index minted by *)
(* C.index_to(v), v in range, returns the element native indexing of C at  *)
(* position v returns.                                                     *)
C1_IndexToThenRead ==
    [][ /\ last'.op = "index_to" => (pc' = "running" /\ UNCHANGED storeVars)
        /\ ( /\ last'.op \in TypedReadOps
             /\ minted'.op = "index_to" /\ minted'.c = last'.c
             /\ minted'.raw < Len(Storage(last'.c)) )
           => /\ last'.out = Native_index(Storage(last'.c), minted'.raw)
              /\ last'.out.kind = "ref"
              /\ last'.val = <<Storage(last'.c)[minted'.raw + 1]>>
              /\ UNCHANGED storeVars ]_vars

C1_Witness ==
    /\ last.op \in TypedReadOps
    /\ minted.op = "index_to" /\ minted.c = last.c /\ minted.raw > 0
    /\ last.out.kind = "ref"

(* C2: an access with a typed index of raw value N on a container of       *)
(* length n panics exactly when N >= n, which is exactly when native       *)
(* indexing at N panics; a panicking access returns nothing, does not wrap  *)
(* N into range and changes no container; an access with N < n returns the *)
(* reference to position N.                                                *)
C2_OutOfRangePanics ==
    [][ last'.op \in TypedAccessOps =>
          LET n == Len(Storage(last'.c))
              N == IndexTo_index(cur)
          IN /\ (N >= n) <=> (last'.out = Panic)
             /\ (last'.out = Panic) <=> (Native_index(Storage(last'.c), N) = Panic)
             /\ last'.out = Panic =>
                   (pc' = "panicked" /\ last'.val = <<>> /\ UNCHANGED storeVars)
             /\ N < n => (last'.out = Ref(N) /\ pc' = "running") ]_vars

C2_Witness ==
    /\ last.op \in TypedAccessOps
    /\ last.c = "slice"
    /\ Len(Storage(last.c)) > 0
    /\ last.raw = Len(Storage(last.c))
    /\ pc = "panicked"

(* C3: after a write of x through a typed index i (C[i] = x,               *)
(* typed_index_mut, get_mut), a read of C through typed_index with any     *)
(* typed index j == i returns x.                                           *)
C3_MutationLaw ==
    (last.op \in TypedMutOps /\ last.out.kind = "ref") =>
        \A v \in RawVals :
            LET j == IndexTo_from_index(v, cur.index_data, cur.index_owner)
                r == TypedIndex_typed_index(ContainerType(last.c), Storage(last.c), j)
            IN PartialEq_eq(j, cur) =>
                  (r.kind = "ref" /\ <<Deref(Storage(last.c), r)>> = last.val)

C3_Witness ==
    /\ last.op \in TypedMutOps /\ last.out.kind = "ref"
    /\ last.c = "integers"
    /\ last.raw = 1
    /\ integers[1] # TestIntegers[1]
    /\ last.val # <<TestIntegers[2]>>

(* C4: every access with a typed index is an access of the container whose *)
(* type is the index's owner marker and whose element type is its data     *)
(* marker; an index minted on one container is accepted by no container of *)
(* another type; and the index minted by index_to(1) on [10, 20, 30] reads *)
(* 20.                                                                     *)
C4_MarkersMatch ==
    /\ last.op \in TypedAccessOps =>
          /\ cur.index_owner = ContainerType(last.c)
          /\ cur.index_data = ElemType(ContainerType(last.c))
    /\ minted.op = "index_to" =>
          \A c \in Containers :
              ContainerType(c) # ContainerType(minted.c) =>
                  /\ ~ImplIndex(ContainerType(c), cur.index_data, cur.index_owner)
                  /\ ~ImplIndexMut(ContainerType(c), cur.index_data, cur.index_owner)
                  /\ ~(last.op \in TypedAccessOps /\ last.c = c)
    /\ ( /\ last.op \in TypedReadOps /\ last.c = "integers"
         /\ integers = TestIntegers
         /\ minted = [op |-> "index_to", c |-> "integers", raw |-> 1] )
       => last.val = <<20>>

C4_Witness ==
    /\ last.op \in TypedReadOps /\ last.c = "integers"
    /\ integers = TestIntegers /\ booleans = TestBooleans
    /\ minted = [op |-> "index_to", c |-> "integers", raw |-> 1]
    /\ last.val = <<20>>

(* C5: from_index(v) and index_to(v) never fail and the index they return  *)
(* has index() == v, for every pair of markers and every v, in range or    *)
(* not.                                                                    *)
C5_RoundTrip ==
    last.op \in {"from_index", "index_to"} =>
        /\ pc = "running"
        /\ IndexTo_index(cur) = last.raw
        /\ last.op = "index_to" =>
              /\ cur.index_owner = ContainerType(last.c)
              /\ cur.index_data = ElemType(ContainerType(last.c))

C5_Witness ==
    /\ last.op = "index_to"
    /\ last.raw > Len(Storage(last.c))
    /\ IndexTo_index(cur) = last.raw

(* C7: idx.get(&c) returns what c.typed_index(idx) and c[idx] return, the  *)
(* same reference or the same panic, and idx.get_mut(&mut c) what          *)
(* c.typed_index_mut(idx) returns; a bare usize used as the receiver       *)
(* returns what native indexing returns.                                   *)
C7_ReverseAccess ==
    LET ct == ContainerType(last.c)
        self == Storage(last.c)
    IN /\ last.op = "get" =>
             /\ last.out = TypedIndex_typed_index(ct, self, cur)
             /\ last.out = Index_index(ct, self, cur)
             /\ last.out.kind = "ref" => last.val = <<Deref(self, last.out)>>
       /\ last.op = "get_mut" =>
             /\ last.out = TypedIndexMut_typed_index_mut(ct, self, cur)
             /\ last.out.kind = "ref" => last.val = <<Deref(self, last.out)>>
       /\ last.op = "usize_get" => last.out = Native_index(self, last.raw)
       /\ last.op = "usize_get_mut" => last.out = Native_index_mut(self, last.raw)

C7_Witness ==
    /\ last.op = "get"
    /\ last.out.kind = "ref" /\ last.out.pos > 0

(* C6: for two typed indices a, b of one type, a == b iff                  *)
(* a.index() == b.index(); a.cmp(&b) and a.partial_cmp(&b) are the raw     *)
(* values' cmp and partial_cmp; and hashing a feeds the hasher exactly     *)
(* what hashing a.index() feeds it, so indices with equal raw values hash  *)
(* alike.                                                                  *)
C6_Congruence ==
    LET a == vals[obs.a]
        b == vals[obs.b]
    IN /\ obs.op = "eq" =>
             obs.out = <<IndexTo_index(a) = IndexTo_index(b)>>
       /\ obs.op = "cmp" =>
             obs.out = <<Usize_cmp(IndexTo_index(a), IndexTo_index(b))>>
       /\ obs.op = "partial_cmp" =>
             obs.out = Usize_partial_cmp(IndexTo_index(a), IndexTo_index(b))
       /\ obs.op = "hash" =>
             /\ obs.out = Usize_hash(IndexTo_index(a), <<>>)
             /\ \A t \in Slots :
                   (vals[t] # NoIdx /\ IndexTo_index(vals[t]) = IndexTo_index(a))
                       => Hash_hash(vals[t], <<>>) = obs.out

C6_Witness ==
    /\ obs.op = "eq"
    /\ obs.a # obs.b
    /\ obs.out = <<FALSE>>

(* C8 as stated: the Debug and Display rendering of a typed index include  *)
(* the name of the element type, the name of the owner type and the raw    *)
(* index value.                                                            *)
C8_RendersDataAndOwner ==
    obs.op \in {"debug", "display"} =>
        /\ Includes(obs.out, TypeName(vals[obs.a].index_data))
        /\ Includes(obs.out, TypeName(vals[obs.a].index_owner))
        /\ Includes(obs.out, Usize_fmt(IndexTo_index(vals[obs.a])))

(* C8 as amended: the Debug and Display rendering of a typed index include *)
(* the name of the owner type and the raw index value; the name of the     *)
(* element type occurs in it only where it is part of the owner type's     *)
(* name.                                                                   *)
C8_RendersOwner ==
    obs.op \in {"debug", "display"} =>
        /\ Includes(obs.out, TypeName(vals[obs.a].index_owner))
        /\ Includes(obs.out, Usize_fmt(IndexTo_index(vals[obs.a])))
        /\ Includes(obs.out, TypeName(vals[obs.a].index_data))
              <=> Includes(TypeName(vals[obs.a].index_owner),
                           TypeName(vals[obs.a].index_data))

C8_Witness ==
    /\ obs.op = "debug"
    /\ vals[obs.a].index_data = "u8"
    /\ obs.out = <<"IndexTo", "<", "str", ">", "(", "3", ")">>

(* C9: a typed index serializes to exactly the serialization of its raw    *)
(* index, and deserializing that yields an index with the same raw value;  *)
(* deserialization succeeds exactly on the valid encodings of a raw index, *)
(* whatever its value, and serializing what it yields gives back the input.*)
C9_SerdeRoundTrip ==
    /\ obs.op = "serialize" =>
          LET idx == vals[obs.a]
              back == IndexTo_deserialize(obs.out, idx.index_data, idx.index_owner)
          IN /\ obs.out = Usize_serialize(IndexTo_index(idx))
             /\ back.ok
             /\ IndexTo_index(back.val) = IndexTo_index(idx)
    /\ obs.op = "deserialize" =>
          LET got == obs.out[1]
              raw == Usize_deserialize(obs.arg)
          IN /\ got.ok <=> raw.ok
             /\ got.ok =>
                   /\ IndexTo_index(got.val) = raw.val
                   /\ IndexTo_serialize(got.val) = obs.arg

C9_Witness ==
    /\ obs.op = "deserialize"
    /\ obs.out[1].ok
    /\ IndexTo_index(obs.out[1].val) > Len(TestIntegers)
    /\ Len(obs.arg) > 1

(* C10: every typed index value holds the raw value last written to it     *)
(* (by from_index, set_index or with_index, or taken over from its source  *)
(* by clone or copy) and the markers of its type, whatever was done to the *)
(* other values in between; a clone or copy starts equal to its source;    *)
(* and no operation on index values changes a container.                   *)
C10_IndependentValues ==
    /\ \A s \in Slots :
          vals[s] # NoIdx =>
              /\ IndexTo_index(vals[s]) = written[s]
              /\ vals[s].index_data = markers.index_data
              /\ vals[s].index_owner = markers.index_owner
    /\ obs.op \in {"clone", "copy"} =>
          IndexTo_index(vals[obs.b]) = IndexTo_index(vals[obs.a])
    /\ integers = TestIntegers /\ booleans = TestBooleans /\ text = TestText

C10_Witness ==
    /\ obs.op = "set_index"
    /\ \E t \in Slots :
          /\ t # obs.a
          /\ vals[t] # NoIdx
          /\ IndexTo_index(vals[t]) # IndexTo_index(vals[obs.a])

====
